---- MODULE Spec2Model ----
(***************************************************************************)
(* Model of src/syscall_info.rs (lurk): the classification of a raw        *)
(* syscall return value (RetCode::from_raw), the rendering of one argument *)
(* (SyscallArg::write, SyscallArgs serialization) and the two renderings   *)
(* of a Call Record (SyscallInfo::write_syscall, SyscallInfo::serialize).  *)
(*                                                                         *)
(* Text is a sequence of one-character strings.  A 64-bit machine word is  *)
(* a sequence of four 16-bit limbs, most significant first, so that the    *)
(* two's-complement arithmetic of the code keeps its width.                *)
(***************************************************************************)
EXTENDS Integers, Sequences, FiniteSets, TLC

VARIABLES raw, ret, args, argCall, argsJson, rec, call, sink, res, map

vars == <<raw, ret, args, argCall, argsJson, rec, call, sink, res, map>>

(***************************************************************************)
(* Bounds of the model.                                                    *)
(***************************************************************************)
\* raw values are taken within Near of the boundaries 0, 0x8000 and 0xFFFF
\* of the low limb
Near == 4
\* longest byte buffer of an argument
MaxBuf == 3
\* largest string_limit given to SyscallArg::write
MaxLimit == 3
\* longest Argument List of a Call Record
MaxArgs == 2

(***************************************************************************)
(* 64-bit words                                                            *)
(***************************************************************************)
Word(a, b, c, d) == <<a, b, c, d>>

\* the sign bit of `x as isize`
IsNegative(x) == x[1] >= 32768

\* isize::MIN, the one value whose negation overflows
IsMin(x) == x = Word(32768, 0, 0, 0)

\* two's-complement negation modulo 2^64: invert every limb and add one
WrappingNeg(x) ==
    LET i4 == 65535 - x[4]
        i3 == 65535 - x[3]
        i2 == 65535 - x[2]
        i1 == 65535 - x[1]
        c4 == IF i4 = 65535 THEN 1 ELSE 0
        c3 == IF c4 = 1 /\ i3 = 65535 THEN 1 ELSE 0
        c2 == IF c3 = 1 /\ i2 = 65535 THEN 1 ELSE 0
    IN  Word((i1 + c2) % 65536, (i2 + c3) % 65536, (i3 + c4) % 65536, (i4 + 1) % 65536)

\* isize::abs where the overflow wraps (overflow checks off)
WrappingAbs(x) == IF IsNegative(x) THEN WrappingNeg(x) ELSE x

\* the signed comparison  x > 0x8000
GreaterThanThreshold(x) ==
    /\ ~IsNegative(x)
    /\ \/ x[1] # 0
       \/ x[2] # 0
       \/ x[3] # 0
       \/ x[4] > 32768

\* `x as i32`: the low 32 bits, read as a signed number
AsI32(x) == IF x[3] >= 32768 THEN (x[3] - 65536) * 65536 + x[4] ELSE x[3] * 65536 + x[4]

(***************************************************************************)
(* RetCode                                                                 *)
(***************************************************************************)
RetOk(v) == [tag |-> "Ok", v |-> v]

RetErr(v) == [tag |-> "Err", v |-> v]

RetAddress(w) == [tag |-> "Address", w |-> w]

Returned(rc) == [status |-> "returned", val |-> rc]

Panicked == [status |-> "panicked"]

NotCalled == [status |-> "none"]

\* RetCode::from_raw.  ret_i32.abs() overflows for isize::MIN: with overflow
\* checks it panics, without them it wraps to isize::MIN.
from_raw(ret_code, overflowChecks) ==
    IF IsMin(ret_code) /\ overflowChecks
    THEN Panicked
    ELSE IF GreaterThanThreshold(WrappingAbs(ret_code))
         THEN Returned(RetAddress(ret_code))
         ELSE IF IsNegative(ret_code)
              THEN Returned(RetErr(AsI32(ret_code)))
              ELSE Returned(RetOk(AsI32(ret_code)))

(***************************************************************************)
(* Text formatting                                                         *)
(***************************************************************************)
DecDigits == <<"0", "1", "2", "3", "4", "5", "6", "7", "8", "9">>

UpperHexDigits == DecDigits \o <<"A", "B", "C", "D", "E", "F">>

LowerHexDigits == DecDigits \o <<"a", "b", "c", "d", "e", "f">>

RECURSIVE FmtUnsigned(_)
\* Display of an unsigned integer: decimal, no sign, no padding
FmtUnsigned(n) ==
    IF n < 10 THEN <<DecDigits[n + 1]>>
    ELSE FmtUnsigned(n \div 10) \o <<DecDigits[(n % 10) + 1]>>

\* Display of a signed integer ({} on i32, i64)
FmtSigned(n) == IF n < 0 THEN <<"-">> \o FmtUnsigned(0 - n) ELSE FmtUnsigned(n)

RECURSIVE PadLeft(_, _)
\* {:>3}: right-aligned in a field of the given width, padded with spaces
PadLeft(text, width) == IF Len(text) >= width THEN text ELSE PadLeft(<<" ">> \o text, width)

\* the sixteen hexadecimal digits of a word, most significant first
Nibbles(w) ==
    [i \in 1..16 |->
        LET l == w[((i - 1) \div 4) + 1]
            k == (i - 1) % 4
        IN  IF k = 0 THEN l \div 4096
            ELSE IF k = 1 THEN (l \div 256) % 16
            ELSE IF k = 2 THEN (l \div 16) % 16
            ELSE l % 16]

RECURSIVE StripLeadingZeros(_)
StripLeadingZeros(ds) ==
    IF Len(ds) > 1 /\ ds[1] = 0 THEN StripLeadingZeros(Tail(ds)) ELSE ds

HexOf(w, digits) ==
    LET ds == StripLeadingZeros(Nibbles(w)) IN [i \in 1..Len(ds) |-> digits[ds[i] + 1]]

\* {:#X} on usize: the prefix 0x and uppercase digits
FmtUpperHex(w) == <<"0", "x">> \o HexOf(w, UpperHexDigits)

\* {:#x} on usize: the prefix 0x and lowercase digits
FmtLowerHex(w) == <<"0", "x">> \o HexOf(w, LowerHexDigits)

(***************************************************************************)
(* Escaping of byte buffers                                                *)
(***************************************************************************)
\* the bytes the model draws buffers from: a, ., ", \ and the line feed
ByteSet == {97, 46, 34, 92, 10}

Dots == <<46, 46, 46>>

\* the character of a printable ASCII byte
Chr(b) ==
    CASE b = 97 -> "a"
      [] b = 46 -> "."
      [] b = 34 -> "\""
      [] b = 92 -> "\\"
      [] OTHER -> "?"

\* crate::arch::escape_to_string, one byte: a printable byte is its own
\* character, any other byte is written as a backslash escape
EscapeByte(b) ==
    IF b >= 32 /\ b <= 126 THEN <<Chr(b)>>
    ELSE <<"\\", "x", LowerHexDigits[(b \div 16) + 1], LowerHexDigits[(b % 16) + 1]>>

RECURSIVE escape_to_string(_)
escape_to_string(buf) ==
    IF buf = <<>> THEN <<>> ELSE EscapeByte(Head(buf)) \o escape_to_string(Tail(buf))

(***************************************************************************)
(* serde_json values                                                       *)
(***************************************************************************)
JStr(s) == [kind |-> "Str", s |-> s]

JInt(n) == [kind |-> "Int", n |-> n]

JWord(w) == [kind |-> "Word", w |-> w]

JFloat(num, den) == [kind |-> "Float", num |-> num, den |-> den]

JSeq(items) == [kind |-> "Seq", items |-> items]

\* the JSON escape of one character of a string
JsonEscapeChar(c) ==
    IF c = "\"" THEN <<"\\", "\"">>
    ELSE IF c = "\\" THEN <<"\\", "\\">>
    ELSE IF c = "\n" THEN <<"\\", "n">>
    ELSE <<c>>

RECURSIVE JsonEscape(_)
JsonEscape(s) == IF s = <<>> THEN <<>> ELSE JsonEscapeChar(Head(s)) \o JsonEscape(Tail(s))

\* Display of serde_json::Value::String: the JSON string literal
DisplayJsonString(v) == <<"\"">> \o JsonEscape(v.s) \o <<"\"">>

(***************************************************************************)
(* The output sink                                                         *)
(***************************************************************************)
\* a sink that accepts every write, or fails its failAt-th write (0: never)
NewSink(failAt) == [data |-> <<>>, log |-> <<>>, failAt |-> failAt]

\* one write to the sink: the text is appended, or the write fails
SinkWrite(s, text) ==
    IF Len(s.log) + 1 = s.failAt
    THEN [s EXCEPT !.log = Append(@, "failed")]
    ELSE [s EXCEPT !.data = @ \o text, !.log = Append(@, "written")]

LastWriteFailed(s) == s.log # <<>> /\ s.log[Len(s.log)] = "failed"

(***************************************************************************)
(* SyscallArg                                                              *)
(***************************************************************************)
ArgInt(v) == [kind |-> "Int", v |-> v]

ArgBytes(b) == [kind |-> "Bytes", b |-> b]

ArgAddr(w) == [kind |-> "Addr", w |-> w]

None == <<>>

Some(n) == <<n>>

\* the truncation with the comparison off by one: a buffer of exactly the
\* limit is cut too
TruncatedAtLimit(v, string_limit) ==
    IF string_limit # None /\ Len(v) >= string_limit[1]
    THEN SubSeq(v, 1, string_limit[1]) \o Dots
    ELSE v

\* SyscallArg::write, the local copy of the buffer: cut to the limit and
\* followed by ... when it is longer than the limit
Truncated(v, string_limit) ==
    IF string_limit # None /\ Len(v) > string_limit[1]
    THEN SubSeq(v, 1, string_limit[1]) \o Dots
    ELSE v

\* SyscallArg::write, the text handed to the sink
ArgText(arg, string_limit) ==
    IF arg.kind = "Int" THEN FmtSigned(arg.v)
    ELSE IF arg.kind = "Bytes"
         THEN DisplayJsonString(JStr(escape_to_string(Truncated(arg.b, string_limit))))
         ELSE FmtUpperHex(arg.w)

\* the element of a byte buffer taken without escaping
SerializeArgUnescaped(arg) ==
    IF arg.kind = "Int" THEN JInt(arg.v)
    ELSE IF arg.kind = "Bytes" THEN JStr([i \in 1..Len(arg.b) |-> Chr(arg.b[i])])
         ELSE JStr(FmtLowerHex(arg.w))

\* SyscallArgs::serialize, one element
SerializeArg(arg) ==
    IF arg.kind = "Int" THEN JInt(arg.v)
    ELSE IF arg.kind = "Bytes" THEN JStr(escape_to_string(arg.b))
         ELSE JStr(FmtLowerHex(arg.w))

\* SyscallArgs::serialize: a sequence of one value per argument, in order
SerializeArgs(as) == JSeq([i \in 1..Len(as) |-> SerializeArg(as[i])])

(***************************************************************************)
(* SyscallInfo                                                             *)
(***************************************************************************)
Sysno(id, name) == [id |-> id, name |-> name]

SysRead == Sysno(0, <<"r", "e", "a", "d">>)

SysExit == Sysno(60, <<"e", "x", "i", "t">>)

SysExitGroup == Sysno(231, <<"e", "x", "i", "t", "_", "g", "r", "o", "u", "p">>)

\* SyscallInfo::new; as is the Argument List parse_args decoded
new(pid, syscall, ret_code, as, duration) ==
    [typ |-> <<"S", "Y", "S", "C", "A", "L", "L">>,
     pid |-> pid,
     syscall |-> syscall,
     args |-> as,
     result |-> ret_code,
     duration |-> duration]

\* StyleConfig: whether colors are used; the styles are named by their field
StyleConfig(use_colors) == [use_colors |-> use_colors]

\* Style::apply_to: the text between the style's marker and the reset marker
apply_to(style, text) == <<"ESC[" \o style>> \o text \o <<"ESC[0m">>

\* StyleConfig::from_ret_code: one style per variant
from_ret_code(rc) ==
    IF rc.tag = "Ok" THEN "success" ELSE IF rc.tag = "Err" THEN "error" ELSE "address"

\* Display for RetCode
DisplayRetCode(rc) == IF rc.tag = "Address" THEN FmtUpperHex(rc.w) ELSE FmtSigned(rc.v)

\* write!(output, "[{}] ", pid)
PidField(r, style) ==
    <<"[">>
    \o (IF style.use_colors THEN apply_to("pid", FmtSigned(r.pid)) ELSE FmtSigned(r.pid))
    \o <<"]", " ">>

\* write!(output, "{:>3} ", self.syscall.id())
NumField(r) == PadLeft(FmtSigned(r.syscall.id), 3) \o <<" ">>

\* write!(output, "{}(", syscall)
NameField(r, style) ==
    (IF style.use_colors THEN apply_to("syscall", r.syscall.name) ELSE r.syscall.name)
    \o <<"(">>

Separator == <<",", " ">>

\* a separator before the first argument too
SeparatorBeforeEvery(idx) == idx >= 0

\* idx > 0
SeparatorBefore(idx) == idx > 0

RECURSIVE ArgWrites(_, _, _)
\* the loop over the Argument List, from the argument of index idx on: the
\* writes it makes, a separator before every argument but the first
ArgWrites(as, string_limit, idx) ==
    IF idx >= Len(as) THEN <<>>
    ELSE (IF SeparatorBefore(idx) THEN <<Separator>> ELSE <<>>)
         \o <<ArgText(as[idx + 1], string_limit)>>
         \o ArgWrites(as, string_limit, idx + 1)

\* the test that forgets exit_group
IsExitOnly(syscall) == syscall = SysExit

\* self.syscall == Sysno::exit || self.syscall == Sysno::exit_group
IsExitCall(syscall) == syscall = SysExit \/ syscall = SysExitGroup

\* write!(output, "{}", self.result)
ResultField(r, style) ==
    IF style.use_colors
    THEN apply_to(from_ret_code(r.result), DisplayRetCode(r.result))
    ELSE DisplayRetCode(r.result)

\* the microseconds taken for the nanoseconds
as_micros(duration) == duration \div 1000

\* Duration::as_nanos: the model keeps a duration as its whole nanoseconds
as_nanos(duration) == duration

\* write!(output, " <{:.6}ns>", nanos): the precision of {:.6} has no effect
\* on an integer, which is written as a plain decimal
DurationField(r) ==
    <<" ", "<">> \o FmtUnsigned(as_nanos(r.duration)) \o <<"n", "s", ">">>

\* the texts of the writes write_syscall makes on a sink that never fails,
\* in order
WriteCalls(r, style, string_limit, show_syscall_num, show_duration) ==
    <<PidField(r, style)>>
    \o (IF show_syscall_num THEN <<NumField(r)>> ELSE <<>>)
    \o <<NameField(r, style)>>
    \o ArgWrites(r.args, string_limit, 0)
    \o <<<<")", " ", "=", " ">>>>
    \o (IF IsExitCall(r.syscall)
        THEN <<<<"?">>>>
        ELSE <<ResultField(r, style)>>
             \o (IF show_duration THEN <<DurationField(r)>> ELSE <<>>))
    \o <<<<"\n">>>>

RECURSIVE WriteAllUnchecked(_, _, _)
\* the writes made without `?`: a failure is kept for the end of the call
WriteAllUnchecked(s, ws, i) ==
    IF i > Len(ws)
    THEN [sink |-> s, res |-> IF \E k \in 1..Len(s.log) : s.log[k] = "failed" THEN "Err" ELSE "Ok"]
    ELSE WriteAllUnchecked(SinkWrite(s, ws[i]), ws, i + 1)

RECURSIVE WriteAll(_, _, _)
\* write!(...)? for the writes ws[i], ws[i+1], ...: the first failure ends
\* the call with that failure
WriteAll(s, ws, i) ==
    IF i > Len(ws) THEN [sink |-> s, res |-> "Ok"]
    ELSE LET s2 == SinkWrite(s, ws[i])
         IN  IF LastWriteFailed(s2) THEN [sink |-> s2, res |-> "Err"]
             ELSE WriteAll(s2, ws, i + 1)

\* SyscallInfo::write_syscall
write_syscall(r, style, string_limit, show_syscall_num, show_duration, output) ==
    WriteAll(output, WriteCalls(r, style, string_limit, show_syscall_num, show_duration), 1)

\* SyscallArg::write on a sink
arg_write(arg, f, string_limit) == WriteAll(f, <<ArgText(arg, string_limit)>>, 1)

\* the keys without the rename of the Err variant
RetCodeKeyUnrenamed(rc) ==
    IF rc.tag = "Ok" THEN "success" ELSE IF rc.tag = "Err" THEN "Err" ELSE "result"

\* the key of a RetCode variant (serde rename)
RetCodeKey(rc) ==
    IF rc.tag = "Ok" THEN "success" ELSE IF rc.tag = "Err" THEN "error" ELSE "result"

\* the Address payload serialized as Address arguments are
SerializeRetCodeHex(rc) ==
    <<RetCodeKey(rc), IF rc.tag = "Address" THEN JStr(FmtLowerHex(rc.w)) ELSE JInt(rc.v)>>

\* the derived Serialize of RetCode through FlatMapSerializer: one entry of
\* the enclosing map, the variant's key and its payload
SerializeRetCode(rc) ==
    <<RetCodeKey(rc), IF rc.tag = "Address" THEN JWord(rc.w) ELSE JInt(rc.v)>>

\* Duration::as_secs_f64: the seconds, as the fraction nanoseconds / 10^9
as_secs_f64(duration) == JFloat(duration, 1000000000)

\* Serialize for SyscallInfo: the entries of the map, in order
serialize(r) ==
    << <<"type", JStr(r.typ)>>,
       <<"pid", JInt(r.pid)>>,
       <<"num", JInt(r.syscall.id)>>,
       <<"syscall", JStr(r.syscall.name)>>,
       <<"args", SerializeArgs(r.args)>>,
       SerializeRetCode(r.result),
       <<"duration", as_secs_f64(r.duration)>> >>

(***************************************************************************)
(* Inputs                                                                  *)
(***************************************************************************)
\* the low limbs within Near of 0, 0x8000 and 0xFFFF
LowLimbs == (0..Near) \cup ((32768 - Near)..(32768 + Near)) \cup ((65535 - Near)..65535)

\* the upper three limbs: small values, 2^16.., 2^63.., 2^63 - .., negatives
UpperLimbs ==
    {<<0, 0, 0>>, <<0, 0, 1>>, <<32768, 0, 0>>, <<32767, 65535, 65535>>,
     <<65535, 65535, 65535>>, <<65535, 65535, 65534>>}

\* 64, -2 and 0x7ffff7001000
SampleReturns == {Word(0, 0, 0, 64), Word(65535, 65535, 65535, 65534), Word(0, 32767, 63232, 4096)}

RawValues == {u \o <<l>> : u \in UpperLimbs, l \in LowLimbs} \cup SampleReturns

RECURSIVE SeqsUpTo(_, _)
\* the sequences over S of length at most n
SeqsUpTo(S, n) ==
    IF n = 0 THEN {<<>>}
    ELSE LET shorter == SeqsUpTo(S, n - 1)
         IN  shorter \cup {Append(q, x) : q \in shorter, x \in S}

Limits(max) == {None} \cup {Some(n) : n \in 0..max}

\* 0x7fffdead
SampleAddr == Word(0, 0, 32767, 57005)

\* the Argument Values of the argument specification: every buffer over
\* ByteSet of at most MaxBuf bytes, two integers and an address
ArgValues ==
    {ArgBytes(b) : b \in SeqsUpTo(ByteSet, MaxBuf)}
    \cup {ArgInt(3), ArgInt(0 - 1), ArgAddr(SampleAddr)}

\* the Argument Values of the Call Records
CallArgValues == {ArgInt(3), ArgAddr(SampleAddr), ArgBytes(<<97, 34>>)}

\* the record of the example: read(3, 0x7fffdead, 128) = 64 by pid 1234
ExampleRecord ==
    new(1234, SysRead, RetOk(64), <<ArgInt(3), ArgAddr(SampleAddr), ArgInt(128)>>, 123000)

CallRecords ==
    {new(1234, sc, from_raw(w, FALSE).val, as, d) :
        sc \in {SysRead, SysExit, SysExitGroup},
        w \in SampleReturns,
        as \in SeqsUpTo(CallArgValues, MaxArgs),
        d \in {0, 123000}}
    \cup {ExampleRecord}

\* the most writes one write_syscall makes
MaxWrites == 2 * MaxArgs + 7

(***************************************************************************)
(* State machine                                                           *)
(***************************************************************************)
Idle == [status |-> "idle"]

NoRecord == [typ |-> <<>>]

IdleRet ==
    /\ raw = Word(0, 0, 0, 0)
    /\ ret = NotCalled

IdleArg ==
    /\ args = <<>>
    /\ argCall = Idle
    /\ argsJson = Idle

IdleCall ==
    /\ rec = NoRecord
    /\ call = Idle
    /\ map = Idle

IdleSink ==
    /\ sink = NewSink(0)
    /\ res = "none"

\* RetCode::from_raw(v)
FromRaw(v, overflowChecks) ==
    /\ raw' = v
    /\ ret' = from_raw(v, overflowChecks)
    /\ UNCHANGED <<args, argCall, argsJson, rec, call, sink, res, map>>

\* args[i].write(f, string_limit) on a fresh sink
ArgWrite(i, string_limit, failAt) ==
    /\ argCall = Idle
    /\ i \in 1..Len(args)
    /\ LET r == arg_write(args[i], NewSink(failAt), string_limit)
       IN  /\ sink' = r.sink
           /\ res' = r.res
    /\ argCall' = [status |-> "called", idx |-> i, string_limit |-> string_limit]
    /\ UNCHANGED <<raw, ret, args, argsJson, rec, call, map>>

\* SyscallArgs::serialize
ArgsSerialize ==
    /\ argsJson = Idle
    /\ argsJson' = [status |-> "done", value |-> SerializeArgs(args)]
    /\ UNCHANGED <<raw, ret, args, argCall, rec, call, sink, res, map>>

\* rec.write_syscall(style, string_limit, show_syscall_num, show_duration,
\* output) on a fresh sink; a record is rendered once
WriteSyscall(use_colors, string_limit, show_syscall_num, show_duration, failAt) ==
    /\ call = Idle
    /\ map = Idle
    /\ LET r == write_syscall(rec, StyleConfig(use_colors), string_limit,
                              show_syscall_num, show_duration, NewSink(failAt))
       IN  /\ sink' = r.sink
           /\ res' = r.res
    /\ call' = [status |-> "called",
                use_colors |-> use_colors,
                string_limit |-> string_limit,
                show_syscall_num |-> show_syscall_num,
                show_duration |-> show_duration]
    /\ UNCHANGED <<raw, ret, args, argCall, argsJson, rec, map>>

\* rec.serialize(serializer); a record is rendered once
Serialize ==
    /\ call = Idle
    /\ map = Idle
    /\ map' = [status |-> "done", entries |-> serialize(rec)]
    /\ UNCHANGED <<raw, ret, args, argCall, argsJson, rec, call, sink, res>>

\* RetCode::from_raw on every raw value of RawValues
InitRet == IdleRet /\ IdleArg /\ IdleCall /\ IdleSink

NextRet == \E v \in RawValues, oc \in BOOLEAN : FromRaw(v, oc)

SpecRet == InitRet /\ [][NextRet]_vars

\* one Argument Value, written and serialized
InitArg ==
    /\ IdleRet /\ IdleCall /\ IdleSink
    /\ args \in {<<a>> : a \in ArgValues}
    /\ argCall = Idle
    /\ argsJson = Idle

NextArg ==
    \/ \E i \in 1..1, l \in Limits(MaxLimit), f \in 0..1 : ArgWrite(i, l, f)
    \/ ArgsSerialize

SpecArg == InitArg /\ [][NextArg]_vars

\* one Call Record, rendered as a trace line or as a structured map
Init ==
    /\ IdleRet /\ IdleArg /\ IdleSink
    /\ rec \in CallRecords
    /\ call = Idle
    /\ map = Idle

Next ==
    \/ \E uc \in BOOLEAN, l \in {None, Some(1)}, n \in BOOLEAN, d \in BOOLEAN, f \in 0..MaxWrites :
          WriteSyscall(uc, l, n, d, f)
    \/ Serialize

Spec == Init /\ [][Next]_vars

(***************************************************************************)
(* Properties                                                              *)
(***************************************************************************)
\* |s| > 32768 for the signed reading s of a word, by cases on the sign:
\* s >= 0 and v > 32768, or s < 0 and v < 2^64 - 32768
MagnitudeExceeds(v) ==
    IF v[1] >= 32768
    THEN ~(v[1] = 65535 /\ v[2] = 65535 /\ v[3] = 65535 /\ v[4] >= 32768)
    ELSE v[1] # 0 \/ v[2] # 0 \/ v[3] # 0 \/ v[4] > 32768

\* the signed reading of a word of magnitude at most 32768
SmallSigned(v) == IF v[1] >= 32768 THEN v[4] - 65536 ELSE v[4]

Classified(v) ==
    IF MagnitudeExceeds(v) THEN RetAddress(v)
    ELSE IF v[1] >= 32768 THEN RetErr(SmallSigned(v))
         ELSE RetOk(SmallSigned(v))

\* C1: from_raw classifies every raw value v by its signed reading s:
\* Address(v) if |s| > 32768, else Error(s) if s < 0, else Success(s),
\* the most negative value s = -2^63 included.
C1_FromRawClassifies == ret.status # "none" => ret = Returned(Classified(raw))

\* C10: from_raw has no failure outcome: for every raw value it returns,
\* without aborting, exactly one of the three variants.
C10_FromRawTotal ==
    ret.status # "none" =>
        /\ ret.status = "returned"
        /\ ret.val.tag \in {"Ok", "Err", "Address"}

Rendered == call.status = "called" /\ res = "Ok"

EndsWith(text, suffix) ==
    /\ Len(text) >= Len(suffix)
    /\ SubSeq(text, Len(text) - Len(suffix) + 1, Len(text)) = suffix

CloseParen == <<")", " ", "=", " ">>

NewLine == <<"\n">>

\* C2: for exit and exit_group the result field after `) = ` is the
\* literal ?, whatever the Return Code, and no duration is written even
\* when show_duration is set; for every other syscall the Return Code is
\* written, followed by the duration exactly when show_duration is set.
C2_ExitResultIsQuestionMark ==
    Rendered =>
        IF rec.syscall \in {SysExit, SysExitGroup}
        THEN EndsWith(sink.data, CloseParen \o <<"?">> \o NewLine)
        ELSE EndsWith(sink.data,
                      CloseParen
                      \o ResultField(rec, StyleConfig(call.use_colors))
                      \o (IF call.show_duration THEN DurationField(rec) ELSE <<>>)
                      \o NewLine)

C2_Witness ==
    /\ Rendered
    /\ rec.syscall = SysExitGroup
    /\ rec.result.tag = "Address"
    /\ call.show_duration

Keys(entries) == [i \in 1..Len(entries) |-> entries[i][1]]

VariantKey(rc) ==
    CASE rc.tag = "Ok" -> "success"
      [] rc.tag = "Err" -> "error"
      [] rc.tag = "Address" -> "result"

\* C3: the map of serialize has exactly seven entries, in the order type,
\* pid, num, syscall, args, <return key>, duration; exactly one of the keys
\* success, error, result is present, and it is the one of the record's
\* Return Code variant.
C3_SevenEntries ==
    map.status = "done" =>
        /\ Keys(map.entries)
             = <<"type", "pid", "num", "syscall", "args", VariantKey(rec.result), "duration">>
        /\ Cardinality({i \in 1..Len(map.entries) :
                           map.entries[i][1] \in {"success", "error", "result"}}) = 1

C3_Witness ==
    /\ map.status = "done"
    /\ rec.result.tag = "Err"
    /\ Len(rec.args) = 2

ArgWritten == argCall.status = "called" /\ res = "Ok"

Quote == <<"\"">>

\* the escaped content of a byte buffer, as either path renders it
EscapedContent(b) == JsonEscape(escape_to_string(b))

\* C4: a byte buffer longer than the limit n is rendered as its first n
\* bytes, escaped, followed by the literal ...; a buffer of at most n
\* bytes, or any buffer without a limit, is rendered whole with nothing
\* appended; integers and addresses are rendered the same for every limit.
C4_Truncation ==
    ArgWritten =>
        LET arg == args[argCall.idx]
            lim == argCall.string_limit
        IN  IF arg.kind = "Bytes"
            THEN IF lim # None /\ Len(arg.b) > lim[1]
                 THEN sink.data = Quote \o EscapedContent(SubSeq(arg.b, 1, lim[1]))
                                        \o <<".", ".", ".">> \o Quote
                 ELSE sink.data = Quote \o EscapedContent(arg.b) \o Quote
            ELSE IF arg.kind = "Int" THEN sink.data = FmtSigned(arg.v)
                 ELSE sink.data = FmtUpperHex(arg.w)

C4_Witness ==
    /\ ArgWritten
    /\ args[argCall.idx].kind = "Bytes"
    /\ argCall.string_limit = Some(0)
    /\ Len(args[argCall.idx].b) = MaxBuf

FailedWrites == {i \in 1..Len(sink.log) : sink.log[i] = "failed"}

\* C5: when a write to the sink fails, write_syscall attempts no further
\* write and returns the failure; it returns success only if every write
\* succeeded.
C5_FailureAborts ==
    call.status = "called" =>
        /\ \A i \in FailedWrites : i = Len(sink.log)
        /\ res = "Err" <=> FailedWrites # {}
        /\ res = "Ok" <=> FailedWrites = {}

C5_Witness ==
    /\ call.status = "called"
    /\ res = "Err"
    /\ Len(rec.args) = 2
    /\ Len(sink.log) = 5

StyleMarkers ==
    {"ESC[pid", "ESC[syscall", "ESC[success", "ESC[error", "ESC[address", "ESC[0m"}

IsText(c) == c \notin StyleMarkers

\* the text without the style markers
Plain(text) == SelectSeq(text, IsText)

RECURSIVE Joined(_, _)
\* the texts with the separator between consecutive ones
Joined(texts, sep) ==
    IF texts = <<>> THEN <<>>
    ELSE IF Len(texts) = 1 THEN texts[1]
         ELSE texts[1] \o sep \o Joined(Tail(texts), sep)

\* C6: a successful write_syscall emits `[pid] `, the syscall number field
\* only when show_syscall_num is set, the name and `(`, the arguments in
\* list order with `, ` between consecutive ones only, `) = `, the result
\* field, the optional duration field and exactly one newline, the last
\* character.
C6_LineShape ==
    Rendered =>
        LET exit == rec.syscall \in {SysExit, SysExitGroup}
            texts == [i \in 1..Len(rec.args) |-> ArgText(rec.args[i], call.string_limit)]
        IN  /\ Plain(sink.data)
                 = <<"[">> \o FmtSigned(rec.pid) \o <<"]", " ">>
                   \o (IF call.show_syscall_num
                       THEN PadLeft(FmtSigned(rec.syscall.id), 3) \o <<" ">>
                       ELSE <<>>)
                   \o rec.syscall.name \o <<"(">>
                   \o Joined(texts, <<",", " ">>)
                   \o CloseParen
                   \o (IF exit THEN <<"?">> ELSE DisplayRetCode(rec.result))
                   \o (IF call.show_duration /\ ~exit THEN DurationField(rec) ELSE <<>>)
                   \o NewLine
            /\ Cardinality({i \in 1..Len(sink.data) : sink.data[i] = "\n"}) = 1
            /\ sink.data[Len(sink.data)] = "\n"

C6_Witness ==
    /\ Rendered
    /\ Len(rec.args) = 2
    /\ call.show_syscall_num
    /\ call.use_colors

BothPaths ==
    /\ ArgWritten
    /\ argsJson.status = "done"
    /\ args[argCall.idx].kind = "Bytes"

\* C7: the string the text path writes for a byte buffer and the string
\* the structured path produces for it consist of the same characters,
\* whatever string_limit the text path is given.
C7_SameCharacters ==
    BothPaths => sink.data = DisplayJsonString(argsJson.value.items[argCall.idx])

\* C7, amended: they consist of the same characters when no string_limit
\* is set or the buffer is not longer than the limit.
C7_SameWhenNotTruncated ==
    (/\ BothPaths
     /\ \/ argCall.string_limit = None
        \/ Len(args[argCall.idx].b) <= argCall.string_limit[1])
    => sink.data = DisplayJsonString(argsJson.value.items[argCall.idx])

C7_Witness ==
    /\ BothPaths
    /\ argCall.string_limit = Some(2)
    /\ args[argCall.idx].b = <<10, 34>>

AddressSerialized == map.status = "done" /\ rec.result.tag = "Address"

\* C8: for a Return Code Address the map holds under the key result a
\* lowercase 0x-prefixed hexadecimal string of the address, the form of
\* the Address arguments in args.
C8_ResultIsHexString ==
    AddressSerialized => map.entries[6] = <<"result", JStr(FmtLowerHex(rec.result.w))>>

\* C8, amended: for a Return Code Address the map holds under the key
\* result the address as an unsigned number; only the Address arguments in
\* args are lowercase 0x-prefixed hexadecimal strings.
C8_ResultIsNumber ==
    AddressSerialized =>
        /\ map.entries[6] = <<"result", JWord(rec.result.w)>>
        /\ \A i \in 1..Len(rec.args) :
              rec.args[i].kind = "Addr" =>
                  map.entries[5][2].items[i] = JStr(FmtLowerHex(rec.args[i].w))

C8_Witness ==
    /\ AddressSerialized
    /\ rec.result.w = Word(0, 32767, 63232, 4096)
    /\ \E i \in 1..Len(rec.args) : rec.args[i].kind = "Addr"

DurationWritten ==
    /\ Rendered
    /\ call.show_duration
    /\ rec.syscall \notin {SysExit, SysExitGroup}

ExampleRendered ==
    /\ DurationWritten
    /\ rec = ExampleRecord
    /\ ~call.use_colors
    /\ ~call.show_syscall_num

ExampleLine ==
    <<"[", "1", "2", "3", "4", "]", " ", "r", "e", "a", "d", "(", "3", ",", " ",
      "0", "x", "7", "F", "F", "F", "D", "E", "A", "D", ",", " ", "1", "2", "8",
      ")", " ", "=", " ", "6", "4", " ", "<">>

\* C9: with show_duration set and a syscall other than exit and
\* exit_group, the duration is appended as the nanosecond count with six
\* fractional digits, so the example record renders as
\* `[1234] read(3, 0x7FFFDEAD, 128) = 64 <123000.000000ns>`.
C9_SixFractionalDigits ==
    /\ DurationWritten =>
          EndsWith(sink.data,
                   <<" ", "<">> \o FmtUnsigned(rec.duration)
                   \o <<".", "0", "0", "0", "0", "0", "0", "n", "s", ">">> \o NewLine)
    /\ ExampleRendered =>
          sink.data = ExampleLine
                      \o <<"1", "2", "3", "0", "0", "0", ".", "0", "0", "0", "0", "0", "0",
                           "n", "s", ">">> \o NewLine

\* C9, amended: the duration is appended as ` <Nns>`, N the whole
\* nanosecond count as a plain decimal integer with no fractional digits,
\* so the example record renders as
\* `[1234] read(3, 0x7FFFDEAD, 128) = 64 <123000ns>`.
C9_WholeNanoseconds ==
    /\ DurationWritten =>
          EndsWith(sink.data,
                   <<" ", "<">> \o FmtUnsigned(rec.duration) \o <<"n", "s", ">">> \o NewLine)
    /\ ExampleRendered =>
          sink.data = ExampleLine \o <<"1", "2", "3", "0", "0", "0", "n", "s", ">">> \o NewLine

C9_Witness == ExampleRendered

====
